---------------------------- MODULE Spec2Model ----------------------------
(***************************************************************************)
(* Context Ambulance: loop detection (analyzers/rules.py), sanitization    *)
(* and removal statistics (sanitizers/__init__.py), and the commands that  *)
(* run them (cli.py, config.py).                                           *)
(*                                                                         *)
(* Message contents are TLA+ strings and the text tests of the code        *)
(* (substring search, lower(), strip(), split on newline, slicing) are     *)
(* computed character by character.  The backquote is not a character of   *)
(* a TLA+ string, so the code fence of three backquotes is written "~~~".  *)
(***************************************************************************)
EXTENDS Integers, Sequences, FiniteSets, TLC

VARIABLES messages, analysis, level, sanitized, stats, pc, config

vars == <<messages, analysis, level, sanitized, stats, pc, config>>

Null == "null"

-----------------------------------------------------------------------------
(* Python string primitives                                                *)

Min(a, b) == IF a < b THEN a ELSE b

\* content[:n]
Prefix(s, n) == SubSeq(s, 1, Min(n, Len(s)))

\* p in s
Contains(s, p) ==
    \E i \in 1..(Len(s) - Len(p) + 1) : SubSeq(s, i, i + Len(p) - 1) = p

\* s.startswith(p)
StartsWith(s, p) == Len(s) >= Len(p) /\ SubSeq(s, 1, Len(p)) = p

UpperAlphabet == "ABCDEFGHIJKLMNOPQRSTUVWXYZ"
LowerAlphabet == "abcdefghijklmnopqrstuvwxyz"

LowerChar(c) ==
    IF \E i \in 1..Len(UpperAlphabet) : SubSeq(UpperAlphabet, i, i) = c
    THEN LET i == CHOOSE j \in 1..Len(UpperAlphabet) : SubSeq(UpperAlphabet, j, j) = c
         IN  SubSeq(LowerAlphabet, i, i)
    ELSE c

\* The characters lo .. hi of s in lower case (halving keeps the recursion shallow).
RECURSIVE LowerRange(_, _, _)
LowerRange(s, lo, hi) ==
    IF lo > hi THEN ""
    ELSE IF lo = hi THEN LowerChar(SubSeq(s, lo, lo))
    ELSE LET mid == (lo + hi) \div 2
         IN  LowerRange(s, lo, mid) \o LowerRange(s, mid + 1, hi)

\* s.lower()
Lower(s) == LowerRange(s, 1, Len(s))

IsSpace(c) == c \in {" ", "\n", "\t", "\r"}

\* s.strip()
Strip(s) ==
    LET keep == {i \in 1..Len(s) : ~IsSpace(SubSeq(s, i, i))}
    IN  IF keep = {} THEN ""
        ELSE LET lo == CHOOSE i \in keep : \A j \in keep : i <= j
                 hi == CHOOSE i \in keep : \A j \in keep : j <= i
             IN  SubSeq(s, lo, hi)

\* s.split(sep) for a separator of one character: the pieces between the
\* positions of sep, in order
Split(s, sep) ==
    LET at == {i \in 1..Len(s) : SubSeq(s, i, i) = sep}
        \* the k-th position of sep; 0 before the first, Len(s) + 1 after the last
        pos(k) == IF k = 0 THEN 0
                  ELSE IF k > Cardinality(at) THEN Len(s) + 1
                  ELSE CHOOSE i \in at : Cardinality({j \in at : j < i}) = k - 1
    IN  [k \in 1..(Cardinality(at) + 1) |-> SubSeq(s, pos(k - 1) + 1, pos(k) - 1)]

\* s.split('\n')
SplitLines(s) == Split(s, "\n")

RECURSIVE JoinLines(_)
\* '\n'.join(lines)
JoinLines(lines) ==
    IF lines = <<>> THEN ""
    ELSE IF Len(lines) = 1 THEN lines[1]
    ELSE lines[1] \o "\n" \o JoinLines(Tail(lines))

\* The code fence.
Fence == "~~~"

-----------------------------------------------------------------------------
(* analyzers/__init__.py: data model and BaseAnalyzer helpers              *)

\* MessageRole
MessageRole == {"user", "assistant", "system"}

\* LoopPattern(pattern_type, occurrences, first_index, last_index, description).
\* Indices are Python indices: 0 is the first message.
LoopPattern(pattern_type, occurrences, first_index, last_index, description) ==
    [pattern_type |-> pattern_type, occurrences |-> occurrences,
     first_index |-> first_index, last_index |-> last_index,
     description |-> description]

\* The code's loop over the lines of a message: (in_code_block, current_block,
\* code_blocks) after the lines from position i on.
RECURSIVE ScanCodeBlocks(_, _, _, _, _)
ScanCodeBlocks(lines, i, in_code_block, current_block, code_blocks) ==
    IF i > Len(lines) THEN code_blocks
    ELSE IF StartsWith(Strip(lines[i]), Fence)
         THEN IF in_code_block
              THEN ScanCodeBlocks(lines, i + 1, FALSE, <<>>,
                                  Append(code_blocks, JoinLines(current_block)))
              ELSE ScanCodeBlocks(lines, i + 1, TRUE, current_block, code_blocks)
         ELSE IF in_code_block
              THEN ScanCodeBlocks(lines, i + 1, in_code_block,
                                  Append(current_block, lines[i]), code_blocks)
              ELSE ScanCodeBlocks(lines, i + 1, in_code_block, current_block, code_blocks)

\* BaseAnalyzer._extract_code_blocks and ConversationSanitizer._extract_code_blocks
\* (the same code twice).
ExtractCodeBlocksOf(content) == ScanCodeBlocks(SplitLines(content), 1, FALSE, <<>>, <<>>)

\* BaseAnalyzer._is_error_message: error_indicators
AnalyzerErrorIndicators ==
    {"error:", "exception:", "traceback", "failed", "cannot", "undefined",
     "null pointer", "segmentation fault"}

IsErrorMessageOf(content) ==
    \E indicator \in AnalyzerErrorIndicators : Contains(Lower(content), indicator)

\* apology_phrases (the same list in BaseAnalyzer._is_apology,
\* ConversationSanitizer._is_apology and _find_apology_indices)
ApologyPhrases ==
    {"i apologize", "sorry", "my apologies", "i was wrong", "let me correct"}

IsApologyOf(content) ==
    \E phrase \in ApologyPhrases : Contains(Lower(content), phrase)

-----------------------------------------------------------------------------
(* sanitizers/__init__.py: text tests                                      *)

\* ConversationSanitizer._is_error: error_indicators
SanitizerErrorIndicators ==
    {"error:", "exception:", "traceback", "failed", "cannot", "undefined"}

SanitizerIsErrorOf(content) ==
    \E indicator \in SanitizerErrorIndicators : Contains(Lower(content), indicator)

SignatureLen == 100

\* ConversationSanitizer._get_error_signature: content[:100].lower().strip()
GetErrorSignatureOf(content) == Strip(Lower(Prefix(content, SignatureLen)))

\* RuleBasedAnalyzer._detect_repetitive_errors: msg.content[:100].lower()
DetectorSignatureOf(content) == Lower(Prefix(content, SignatureLen))

FillerMaxLen == 30

\* ConversationSanitizer._is_filler_message: filler_phrases
FillerPhrases ==
    {"sure", "okay", "got it", "understood", "let me try", "i'll fix", "one moment"}

IsFillerOf(role, content) ==
    IF role # "assistant" THEN FALSE
    ELSE LET content_lower == Strip(Lower(content))
         IN  IF Len(content_lower) < FillerMaxLen /\ ~Contains(content, Fence) THEN TRUE
             ELSE IF \E phrase \in FillerPhrases : content_lower = phrase THEN TRUE
             ELSE FALSE

CodeHashLen == 500

\* hash(code_blocks[0][:500]): the hashed text stands for its hash.
CodeHashOf(content) == Prefix(ExtractCodeBlocksOf(content)[1], CodeHashLen)

-----------------------------------------------------------------------------
(* The message texts the model draws conversations from                    *)

\* tests/fixtures: SAMPLE_LOOP_CONVERSATION[3], [5] (assistant apologies with
\* the same code block)
TxtApologyCodeA == "I apologize. Let me try again:\n~~~python\nx = 10\nprint(x)\n~~~"
TxtApologyCodeB == "Sorry about that. Here's another approach:\n~~~python\nx = 10\nprint(x)\n~~~"
\* a short apology (under 30 characters, no fence) and a longer one without code
TxtApologyShort == "My apologies, one sec"
TxtApologyLong == "I apologize for the confusion. Let's try another way."
\* tests/fixtures: SAMPLE_LOOP_CONVERSATION[2], [4] and SAMPLE_CLEAN_CONVERSATION[0], [2]
TxtStill == "Still getting the same error."
TxtSame == "Same error."
TxtHowRead == "How do I read a file in Python?"
TxtThanks == "Thanks! That worked perfectly."
\* error-bearing texts; the first two differ in case only
TxtFailed == "Build failed: exit code 1, see the log"
TxtFailedUpper == "BUILD FAILED: exit code 1, see the log"
TxtCannot == "cannot import name x"
\* error-bearing for the analyzer only
TxtNullPointer == "null pointer dereference in the main loop"
\* 100 characters and longer texts that share them
Txt100 == "The deployment script stops in the middle of the run and prints the very same output each time: ...."
TxtLongFailed == Txt100 \o " it failed"
TxtLongCannot == Txt100 \o " it cannot go on"
TxtLongFine == Txt100 \o " it is fine now"

\* user messages around the lengths _extract_goal tests: 50 and 51 characters,
\* a short first line before a long second one, first lines of 200 and 201
TxtGoal50 == "Please help me to get the parser tests to pass now"
TxtGoal51 == TxtGoal50 \o "!"
TxtGoalLines == "Fix the login page\n" \o Txt100
TxtGoal200 == Txt100 \o Txt100
TxtGoal201 == TxtGoal200 \o "!\nThanks"
\* code blocks of 10, 9 and 10 characters with different text, and one of 19
TxtCode10a == "Try this:\n~~~\nx = f(a)\n1\n~~~\nand run it once more please"
TxtCode10b == "Or this, which is shorter:\n~~~\ny = g(bb)\n~~~"
TxtCode11 == "Maybe this one instead of it:\n~~~\nz = h(ccc)\n~~~"
TxtCode20 == "A longer version of it:\n~~~\nresult = compute(a)\n~~~"
\* three similar blocks in one message, an empty block, an unclosed fence
TxtThreeBlocks == "~~~\naaaa\n~~~\ntext\n~~~\nbbbb\n~~~\ntext\n~~~\ncccc\n~~~"
\* two blocks each: of 4 characters, and of 10, 9 and 11 characters
TxtTwoBlocksA == "~~~\naaaa\n~~~\nthen\n~~~\nx = f(a)\n1\n~~~"
TxtTwoBlocksB == "~~~\nbbbb\n~~~\nthen\n~~~\ny = g(bb)\n~~~"
TxtTwoBlocksC == "~~~\ncccc\n~~~\nthen\n~~~\nz = h(cccc)\n~~~"
TxtEmptyBlock == "An empty block, nothing in it:\n~~~\n~~~"
TxtUnclosed == "This block is never closed:\n~~~\nx = 10"
\* acknowledgments
\* an assistant message of 32 characters, 26 of them before the trailing blanks
TxtPadded == "Let me look at this again.      "

\* the text of TxtLongFailed, followed by the code block of TxtApologyCodeA
TxtLongFailedCode == TxtLongFailed \o "\n~~~python\nx = 10\nprint(x)\n~~~"

\* an error whose first line mentions none of the blocker words, whose second
\* line is indented, and whose third line mentions one too
TxtTraceback == "Traceback (most recent call last):\n  ValueError: bad value\nthe build failed"

\* an error in one line of more than 200 characters
TxtLongLineFailed == TxtGoal200 \o " and then it failed"

TxtOkay == "Okay"
TxtSureLong == "  Sure  "
\* the empty content
TxtEmpty == ""

Contents ==
    {TxtApologyCodeA, TxtApologyCodeB, TxtApologyShort, TxtApologyLong, TxtStill, TxtSame, TxtHowRead,
     TxtThanks, TxtFailed, TxtFailedUpper, TxtCannot, TxtNullPointer, Txt100,
     TxtLongFailed, TxtLongCannot, TxtLongFine, TxtCode10a, TxtCode10b, TxtCode11,
     TxtCode20, TxtThreeBlocks, TxtEmptyBlock, TxtUnclosed, TxtOkay, TxtSureLong,
     TxtEmpty, TxtGoal50, TxtGoal51, TxtGoalLines, TxtGoal200, TxtGoal201,
     TxtPadded, TxtLongFailedCode, TxtTwoBlocksA, TxtTwoBlocksB, TxtTwoBlocksC,
     TxtTraceback, TxtLongLineFailed}

-----------------------------------------------------------------------------
(* The text tests, computed once for each text of Contents                 *)

CodeBlocksMemo == [c \in Contents |-> ExtractCodeBlocksOf(c)]
ErrorMessageMemo == [c \in Contents |-> IsErrorMessageOf(c)]
ApologyMemo == [c \in Contents |-> IsApologyOf(c)]
SanitizerErrorMemo == [c \in Contents |-> SanitizerIsErrorOf(c)]
ErrorSignatureMemo == [c \in Contents |-> GetErrorSignatureOf(c)]
DetectorSignatureMemo == [c \in Contents |-> DetectorSignatureOf(c)]
FillerMemo == [c \in Contents |-> [r \in MessageRole |-> IsFillerOf(r, c)]]

\* BaseAnalyzer._extract_code_blocks(content)
extract_code_blocks(content) == CodeBlocksMemo[content]

\* BaseAnalyzer._is_error_message(content)
is_error_message(content) == ErrorMessageMemo[content]

\* BaseAnalyzer._is_apology(content), ConversationSanitizer._is_apology(message)
is_apology(content) == ApologyMemo[content]

\* ConversationSanitizer._is_error(message)
is_error(message) == SanitizerErrorMemo[message.content]

\* ConversationSanitizer._get_error_signature(content)
get_error_signature(content) == ErrorSignatureMemo[content]

\* A slip in _is_filler_message: the role test is left out.
is_filler_message_any_role(message) == FillerMemo[message.content]["assistant"]

\* ConversationSanitizer._is_filler_message(message)
is_filler_message(message) == FillerMemo[message.content][message.role]

-----------------------------------------------------------------------------
(* analyzers/rules.py: the three detectors                                 *)

\* enumerate(messages): the Python indices 0 .. len(messages) - 1, in order
Indices(msgs) == [k \in 1..Len(msgs) |-> k - 1]

\* messages[i] for a Python index i
At(msgs, i) == msgs[i + 1]

Range(seq) == {seq[k] : k \in 1..Len(seq)}

\* Counter(...).items(): the distinct keys in order of first insertion
RECURSIVE CounterKeys(_)
CounterKeys(keys) ==
    IF keys = <<>> THEN <<>>
    ELSE LET rest == CounterKeys(SubSeq(keys, 1, Len(keys) - 1))
             last == keys[Len(keys)]
         IN  IF last \in Range(rest) THEN rest ELSE Append(rest, last)

\* f"... {count} ...": the decimal text of a count
Str(n) == ToString(n)

DescriptionSigLen == 50

RepetitiveErrorDescription(count, error_sig) ==
    "Same error repeated " \o Str(count) \o " times: "
        \o Prefix(error_sig, DescriptionSigLen) \o "..."

\* A slip in _detect_repetitive_errors: count > threshold for count >= threshold.
detect_repetitive_errors_above(msgs, error_threshold) ==
    LET error_idx == SelectSeq(Indices(msgs),
                               LAMBDA i : is_error_message(At(msgs, i).content))
        sig(i) == DetectorSignatureMemo[At(msgs, i).content]
        keys == CounterKeys([k \in 1..Len(error_idx) |-> sig(error_idx[k])])
        indices(error_sig) == SelectSeq(error_idx, LAMBDA i : sig(i) = error_sig)
        count(error_sig) == Len(indices(error_sig))
        flagged == SelectSeq(keys, LAMBDA error_sig : count(error_sig) > error_threshold)
    IN  [k \in 1..Len(flagged) |->
            LoopPattern("repetitive_error",
                        count(flagged[k]),
                        indices(flagged[k])[1],
                        indices(flagged[k])[Len(indices(flagged[k]))],
                        RepetitiveErrorDescription(count(flagged[k]), flagged[k]))]

\* RuleBasedAnalyzer._detect_repetitive_errors
detect_repetitive_errors(msgs, error_threshold) ==
    LET error_idx == SelectSeq(Indices(msgs),
                               LAMBDA i : is_error_message(At(msgs, i).content))
        sig(i) == DetectorSignatureMemo[At(msgs, i).content]
        \* error_messages = [(i, error_sig), ...]
        error_messages == [k \in 1..Len(error_idx) |-> <<error_idx[k], sig(error_idx[k])>>]
        keys == CounterKeys([k \in 1..Len(error_messages) |-> error_messages[k][2]])
        indices(error_sig) ==
            SelectSeq(error_idx, LAMBDA i : sig(i) = error_sig)
        count(error_sig) == Len(indices(error_sig))
        flagged == SelectSeq(keys, LAMBDA error_sig : count(error_sig) >= error_threshold)
    IN  [k \in 1..Len(flagged) |->
            LoopPattern("repetitive_error",
                        count(flagged[k]),
                        indices(flagged[k])[1],
                        indices(flagged[k])[Len(indices(flagged[k]))],
                        RepetitiveErrorDescription(count(flagged[k]), flagged[k]))]

ApologyDescription(count) ==
    "Model apologized " \o Str(count) \o " times without making progress"

\* A slip in _detect_apology_cascade: the role test is left out.
detect_apology_cascade_any_role(msgs, apology_threshold) ==
    LET apology_indices ==
            SelectSeq(Indices(msgs), LAMBDA i : is_apology(At(msgs, i).content))
    IN  IF Len(apology_indices) >= apology_threshold
        THEN <<LoopPattern("apology_cascade",
                           Len(apology_indices),
                           apology_indices[1],
                           apology_indices[Len(apology_indices)],
                           ApologyDescription(Len(apology_indices)))>>
        ELSE <<>>

\* RuleBasedAnalyzer._detect_apology_cascade
detect_apology_cascade(msgs, apology_threshold) ==
    LET apology_indices ==
            SelectSeq(Indices(msgs),
                      LAMBDA i : At(msgs, i).role = "assistant"
                                 /\ is_apology(At(msgs, i).content))
    IN  IF Len(apology_indices) >= apology_threshold
        THEN <<LoopPattern("apology_cascade",
                           Len(apology_indices),
                           apology_indices[1],
                           apology_indices[Len(apology_indices)],
                           ApologyDescription(Len(apology_indices)))>>
        ELSE <<>>

\* code_blocks = [(i, block), ...] for the messages from Python index i on
RECURSIVE CollectCodeBlocks(_, _)
CollectCodeBlocks(msgs, i) ==
    IF i >= Len(msgs) THEN <<>>
    ELSE LET blocks == extract_code_blocks(At(msgs, i).content)
         IN  [k \in 1..Len(blocks) |-> <<i, blocks[k]>>] \o CollectCodeBlocks(msgs, i + 1)

\* 0.9 <= len(code2) / len(code1) <= 1.1, and ratio 0 when len(code1) = 0
SimilarLength(code1, code2) ==
    /\ Len(code1) > 0
    /\ 9 * Len(code1) <= 10 * Len(code2)
    /\ 10 * Len(code2) <= 11 * Len(code1)

ChurnMinCluster == 3

ChurnDescription(count) ==
    "Similar code repeated " \o Str(count) \o " times with minor variations"

\* The outer loop of _detect_code_churn from block position i (1-based) on, with
\* the set seen of block positions consumed so far.
RECURSIVE ChurnLoop(_, _, _)
ChurnLoop(code_blocks, i, seen) ==
    IF i > Len(code_blocks) THEN <<>>
    ELSE IF i \in seen THEN ChurnLoop(code_blocks, i + 1, seen)
    ELSE LET joined == {j \in (i + 1)..Len(code_blocks) :
                            /\ j \notin seen
                            /\ SimilarLength(code_blocks[i][2], code_blocks[j][2])}
             positions == SelectSeq([k \in 1..Len(code_blocks) |-> k],
                                    LAMBDA j : j = i \/ j \in joined)
             similar_indices == [k \in 1..Len(positions) |-> code_blocks[positions[k]][1]]
             rest == ChurnLoop(code_blocks, i + 1, seen \cup joined)
         IN  IF Len(similar_indices) >= ChurnMinCluster
             THEN <<LoopPattern("code_churn",
                                Len(similar_indices),
                                similar_indices[1],
                                similar_indices[Len(similar_indices)],
                                ChurnDescription(Len(similar_indices)))>> \o rest
             ELSE rest

\* A slip in _detect_code_churn: seen is never filled, so a block that joined
\* a cluster is compared again and seeds a cluster of its own.
RECURSIVE ChurnLoopNoSeen(_, _)
ChurnLoopNoSeen(code_blocks, i) ==
    IF i > Len(code_blocks) THEN <<>>
    ELSE LET joined == {j \in (i + 1)..Len(code_blocks) :
                            SimilarLength(code_blocks[i][2], code_blocks[j][2])}
             positions == SelectSeq([k \in 1..Len(code_blocks) |-> k],
                                    LAMBDA j : j = i \/ j \in joined)
             similar_indices == [k \in 1..Len(positions) |-> code_blocks[positions[k]][1]]
             rest == ChurnLoopNoSeen(code_blocks, i + 1)
         IN  IF Len(similar_indices) >= ChurnMinCluster
             THEN <<LoopPattern("code_churn",
                                Len(similar_indices),
                                similar_indices[1],
                                similar_indices[Len(similar_indices)],
                                ChurnDescription(Len(similar_indices)))>> \o rest
             ELSE rest

detect_code_churn_no_seen(msgs) == ChurnLoopNoSeen(CollectCodeBlocks(msgs, 0), 1)

\* A slip in _detect_code_churn: the position in code_blocks is recorded where
\* the message index is meant.
detect_code_churn_block_positions(msgs) ==
    LET code_blocks == CollectCodeBlocks(msgs, 0)
    IN  ChurnLoop([k \in 1..Len(code_blocks) |-> <<k - 1, code_blocks[k][2]>>], 1, {})

\* RuleBasedAnalyzer._detect_code_churn
detect_code_churn(msgs) == ChurnLoop(CollectCodeBlocks(msgs, 0), 1, {})

-----------------------------------------------------------------------------
(* analyzers/rules.py: the aggregator                                      *)

GoalMinLen == 50
GoalMaxLen == 200
GoalSentinel == "Goal not clearly identified from conversation"

\* _extract_goal: the goal a qualifying user message gives
GoalTextOf(text) ==
    LET content == SplitLines(text)[1]
    IN  IF Len(content) > GoalMaxLen THEN Prefix(content, GoalMaxLen) \o "..." ELSE content

GoalTextMemo == [c \in Contents |-> GoalTextOf(c)]

\* A slip in _extract_goal: the role of the message is not tested.
extract_goal_any_role(msgs) ==
    LET qualifying == SelectSeq(msgs, LAMBDA msg : Len(msg.content) > GoalMinLen)
    IN  IF qualifying # <<>> THEN GoalTextMemo[qualifying[1].content] ELSE GoalSentinel

\* RuleBasedAnalyzer._extract_goal
extract_goal(msgs) ==
    LET qualifying == SelectSeq(msgs, LAMBDA msg : msg.role = "user"
                                                  /\ Len(msg.content) > GoalMinLen)
    IN  IF qualifying # <<>> THEN GoalTextMemo[qualifying[1].content] ELSE GoalSentinel

BlockerWindow == 10
BlockerMaxLen == 200
BlockerWords == {"error", "exception", "failed"}
StuckSentinel == "Conversation stuck in repetitive pattern without progress"
BlockerSentinel == "Blocker not clearly identified"

\* _identify_blocker: the first line of a message that mentions a blocker word,
\* stripped and cut to 200 characters; Null when no line does
BlockerLineOf(text) ==
    LET hits == SelectSeq(SplitLines(text),
                          LAMBDA line : \E word \in BlockerWords : Contains(Lower(line), word))
    IN  IF hits # <<>> THEN Prefix(Strip(hits[1]), BlockerMaxLen) ELSE Null

BlockerLineMemo == [c \in Contents |-> BlockerLineOf(c)]

\* max(error_loops, key=lambda x: x.occurrences): the first of the maxima
MaxByOccurrences(loops) ==
    LET k == CHOOSE i \in 1..Len(loops) :
                 /\ \A j \in 1..Len(loops) : loops[j].occurrences <= loops[i].occurrences
                 /\ \A j \in 1..(i - 1) : loops[j].occurrences < loops[i].occurrences
    IN  loops[k]

\* reversed(seq)
Reversed(seq) == [k \in 1..Len(seq) |-> seq[Len(seq) + 1 - k]]

\* messages[-n:]
LastN(seq, n) == SubSeq(seq, IF Len(seq) > n THEN Len(seq) - n + 1 ELSE 1, Len(seq))

\* A slip in _identify_blocker: reversed(messages) for reversed(messages[-10:]).
identify_blocker_all_messages(msgs, loops) ==
    LET error_loops == SelectSeq(loops, LAMBDA l : l.pattern_type = "repetitive_error")
        recent == SelectSeq(Reversed(msgs),
                            LAMBDA msg : /\ is_error_message(msg.content)
                                         /\ BlockerLineMemo[msg.content] # Null)
        apology_loops == SelectSeq(loops, LAMBDA l : l.pattern_type = "apology_cascade")
    IN  IF error_loops # <<>> THEN MaxByOccurrences(error_loops).description
        ELSE IF recent # <<>> THEN BlockerLineMemo[recent[1].content]
        ELSE IF apology_loops # <<>> THEN StuckSentinel
        ELSE BlockerSentinel

\* RuleBasedAnalyzer._identify_blocker
identify_blocker(msgs, loops) ==
    LET error_loops == SelectSeq(loops, LAMBDA l : l.pattern_type = "repetitive_error")
        recent == SelectSeq(Reversed(LastN(msgs, BlockerWindow)),
                            LAMBDA msg : /\ is_error_message(msg.content)
                                         /\ BlockerLineMemo[msg.content] # Null)
        apology_loops == SelectSeq(loops, LAMBDA l : l.pattern_type = "apology_cascade")
    IN  IF error_loops # <<>> THEN MaxByOccurrences(error_loops).description
        ELSE IF recent # <<>> THEN BlockerLineMemo[recent[1].content]
        ELSE IF apology_loops # <<>> THEN StuckSentinel
        ELSE BlockerSentinel

StateMinBlockLen == 50
StateMaxLen == 300
StateSentinel == "Current state unclear"

\* _extract_current_state: the first block of a message longer than 50
\* characters, fenced; Null when the message has none
StateBlockOf(text) ==
    LET big == SelectSeq(ExtractCodeBlocksOf(text), LAMBDA block : Len(block) > StateMinBlockLen)
    IN  IF big # <<>> THEN "~~~\n" \o big[1] \o "\n~~~" ELSE Null

StateBlockMemo == [c \in Contents |-> StateBlockOf(c)]

\* RuleBasedAnalyzer._extract_current_state
extract_current_state(msgs) ==
    LET with_code == SelectSeq(Reversed(msgs), LAMBDA msg : StateBlockMemo[msg.content] # Null)
        last_msg == msgs[Len(msgs)]
    IN  IF with_code # <<>> THEN StateBlockMemo[with_code[1].content]
        ELSE IF msgs # <<>>
             THEN Prefix(last_msg.content, StateMaxLen)
                      \o (IF Len(last_msg.content) > StateMaxLen THEN "..." ELSE "")
        ELSE StateSentinel

ProgressIndicators ==
    {"solved", "fixed", "working", "success", "found the issue", "figured out", "realized"}
InsightMaxLen == 150
MaxInsights == 5
InsightSentinel == "No clear breakthroughs identified in conversation"

\* _extract_insights: the insight a message outside the loops gives; Null when none
InsightOf(text) ==
    LET hits == SelectSeq(Split(text, "."),
                          LAMBDA sentence :
                              \E indicator \in ProgressIndicators :
                                  Contains(Lower(sentence), indicator))
    IN  IF (\E indicator \in ProgressIndicators : Contains(Lower(text), indicator))
           /\ hits # <<>> /\ Prefix(Strip(hits[1]), InsightMaxLen) # ""
        THEN Prefix(Strip(hits[1]), InsightMaxLen)
        ELSE Null

InsightMemo == [c \in Contents |-> InsightOf(c)]

\* RuleBasedAnalyzer._extract_insights
extract_insights(msgs, loops) ==
    LET loop_indices == UNION {loops[k].first_index .. loops[k].last_index : k \in 1..Len(loops)}
        found == SelectSeq(Indices(msgs),
                           LAMBDA i : /\ i \notin loop_indices
                                      /\ InsightMemo[At(msgs, i).content] # Null)
        insights == [k \in 1..Len(found) |-> InsightMemo[At(msgs, found[k]).content]]
    IN  IF insights = <<>> THEN <<InsightSentinel>>
        ELSE Prefix(insights, MaxInsights)

HasPattern(loops, pattern_type) == \E k \in 1..Len(loops) : loops[k].pattern_type = pattern_type

\* RuleBasedAnalyzer._generate_recommendations
generate_recommendations(loops) ==
    LET by_pattern ==
            (IF HasPattern(loops, "repetitive_error")
             THEN <<"Try a completely different approach - the current method has failed multiple times">>
             ELSE <<>>)
            \o (IF HasPattern(loops, "apology_cascade")
                THEN <<"Provide more context or constraints to break out of the current pattern">>
                ELSE <<>>)
            \o (IF HasPattern(loops, "code_churn")
                THEN <<"Step back and reconsider the architecture rather than making incremental tweaks">>
                ELSE <<>>)
        recommendations ==
            IF by_pattern = <<>> THEN <<"Review the original goal and verify assumptions">>
            ELSE by_pattern
    IN  Append(recommendations, "Consider consulting documentation or external resources")

\* Analysis(goal, blocker, key_insights, loops_detected, current_state, recommended_steps)
Analysis(goal, blocker, key_insights, loops_detected, current_state, recommended_steps) ==
    [goal |-> goal, blocker |-> blocker, key_insights |-> key_insights,
     loops_detected |-> loops_detected, current_state |-> current_state,
     recommended_steps |-> recommended_steps]

\* RuleBasedAnalyzer.analyze_conversation
analyze_conversation(msgs, error_threshold, apology_threshold) ==
    LET loops == detect_repetitive_errors(msgs, error_threshold)
                     \o detect_apology_cascade(msgs, apology_threshold)
                     \o detect_code_churn(msgs)
    IN  Analysis(extract_goal(msgs),
                 identify_blocker(msgs, loops),
                 extract_insights(msgs, loops),
                 loops,
                 extract_current_state(msgs),
                 generate_recommendations(loops))

-----------------------------------------------------------------------------
(* sanitizers/__init__.py: ConversationSanitizer                           *)

\* SanitizationLevel
SanitizationLevel == {"minimal", "balanced", "aggressive"}

\* ConversationSanitizer._find_apology_indices
find_apology_indices(msgs, start, end) ==
    SelectSeq(Indices(msgs),
              LAMBDA i : /\ start <= i
                         /\ i < Min(end + 1, Len(msgs))
                         /\ is_apology(At(msgs, i).content))

\* seq[1:]
Rest(seq) == IF seq = <<>> THEN <<>> ELSE Tail(seq)

\* A slip in _get_removal_indices: the apology branch removes indices, not
\* indices[1:], so the first apology goes too.
LoopRemovalIndicesAllApologies(msgs, loop) ==
    IF loop.pattern_type = "repetitive_error"
    THEN (loop.first_index + 1) .. loop.last_index
    ELSE IF loop.pattern_type = "apology_cascade"
    THEN Range(find_apology_indices(msgs, loop.first_index, loop.last_index))
    ELSE IF loop.pattern_type = "code_churn"
    THEN loop.first_index .. (loop.last_index - 1)
    ELSE {}

\* A slip in _get_removal_indices: the branch of repetitive_error removes the
\* whole range, the first error too.
LoopRemovalIndicesWholeErrorRange(msgs, loop) ==
    IF loop.pattern_type = "repetitive_error"
    THEN loop.first_index .. loop.last_index
    ELSE IF loop.pattern_type = "apology_cascade"
    THEN Range(Rest(find_apology_indices(msgs, loop.first_index, loop.last_index)))
    ELSE IF loop.pattern_type = "code_churn"
    THEN loop.first_index .. (loop.last_index - 1)
    ELSE {}

\* A slip in _get_removal_indices: the branch of apology_cascade takes the
\* range itself, as that of repetitive_error does, not the apologies in it.
LoopRemovalIndicesApologyRange(msgs, loop) ==
    IF loop.pattern_type = "repetitive_error"
    THEN (loop.first_index + 1) .. loop.last_index
    ELSE IF loop.pattern_type = "apology_cascade"
    THEN (loop.first_index + 1) .. loop.last_index
    ELSE IF loop.pattern_type = "code_churn"
    THEN loop.first_index .. (loop.last_index - 1)
    ELSE {}

\* A slip in _get_removal_indices: the branch of code_churn keeps the first
\* version ([1:]), not the last ([:-1]).
LoopRemovalIndicesChurnKeepsFirst(msgs, loop) ==
    IF loop.pattern_type = "repetitive_error"
    THEN (loop.first_index + 1) .. loop.last_index
    ELSE IF loop.pattern_type = "apology_cascade"
    THEN Range(Rest(find_apology_indices(msgs, loop.first_index, loop.last_index)))
    ELSE IF loop.pattern_type = "code_churn"
    THEN (loop.first_index + 1) .. loop.last_index
    ELSE {}

\* The indices one loop adds to remove_indices.
LoopRemovalIndices(msgs, loop) ==
    IF loop.pattern_type = "repetitive_error"
    THEN \* list(range(first_index, last_index + 1))[1:]
         (loop.first_index + 1) .. loop.last_index
    ELSE IF loop.pattern_type = "apology_cascade"
    THEN \* indices[1:]
         Range(Rest(find_apology_indices(msgs, loop.first_index, loop.last_index)))
    ELSE IF loop.pattern_type = "code_churn"
    THEN \* list(range(first_index, last_index + 1))[:-1]
         loop.first_index .. (loop.last_index - 1)
    ELSE {}

\* ConversationSanitizer._get_removal_indices
get_removal_indices(msgs, loops_detected) ==
    UNION {LoopRemovalIndices(msgs, loops_detected[k]) : k \in 1..Len(loops_detected)}

\* code_blocks[0][:500], hashed: the hashed text stands for its hash.
CodeHashMemo ==
    [c \in Contents |-> IF ExtractCodeBlocksOf(c) # <<>> THEN CodeHashOf(c) ELSE Null]

\* The loop of _aggressive_cleanup from position i (1-based) on.
RECURSIVE AggressiveLoop(_, _, _, _)
AggressiveLoop(msgs, i, seen_errors, seen_code_hashes) ==
    IF i > Len(msgs) THEN <<>>
    ELSE LET msg == msgs[i]
             error_sig == get_error_signature(msg.content)
             code_blocks == extract_code_blocks(msg.content)
             code_hash == CodeHashMemo[msg.content]
             errors_after == IF is_error(msg) THEN seen_errors \cup {error_sig}
                             ELSE seen_errors
             hashes_after == IF code_blocks # <<>> THEN seen_code_hashes \cup {code_hash}
                             ELSE seen_code_hashes
         IN  IF is_error(msg) /\ error_sig \in seen_errors
             THEN AggressiveLoop(msgs, i + 1, seen_errors, seen_code_hashes)
             ELSE IF code_blocks # <<>> /\ code_hash \in seen_code_hashes
             THEN AggressiveLoop(msgs, i + 1, errors_after, seen_code_hashes)
             ELSE IF is_filler_message(msg)
             THEN AggressiveLoop(msgs, i + 1, errors_after, hashes_after)
             ELSE <<msg>> \o AggressiveLoop(msgs, i + 1, errors_after, hashes_after)

\* A slip in _aggressive_cleanup: cleaned.insert(0, msg) for cleaned.append(msg).
aggressive_cleanup_prepending(msgs) == Reversed(AggressiveLoop(msgs, 1, {}, {}))

\* A slip in _aggressive_cleanup: the code hash of a message is recorded
\* before the test for a duplicate error, so a dropped duplicate error still
\* shadows a later message with its code.
RECURSIVE AggressiveLoopHashFirst(_, _, _, _)
AggressiveLoopHashFirst(msgs, i, seen_errors, seen_code_hashes) ==
    IF i > Len(msgs) THEN <<>>
    ELSE LET msg == msgs[i]
             error_sig == get_error_signature(msg.content)
             code_blocks == extract_code_blocks(msg.content)
             code_hash == CodeHashMemo[msg.content]
             errors_after == IF is_error(msg) THEN seen_errors \cup {error_sig}
                             ELSE seen_errors
             hashes_after == IF code_blocks # <<>> THEN seen_code_hashes \cup {code_hash}
                             ELSE seen_code_hashes
         IN  IF is_error(msg) /\ error_sig \in seen_errors
             THEN AggressiveLoopHashFirst(msgs, i + 1, seen_errors, hashes_after)
             ELSE IF code_blocks # <<>> /\ code_hash \in seen_code_hashes
             THEN AggressiveLoopHashFirst(msgs, i + 1, errors_after, seen_code_hashes)
             ELSE IF is_filler_message(msg)
             THEN AggressiveLoopHashFirst(msgs, i + 1, errors_after, hashes_after)
             ELSE <<msg>> \o AggressiveLoopHashFirst(msgs, i + 1, errors_after, hashes_after)

aggressive_cleanup_hash_first(msgs) == AggressiveLoopHashFirst(msgs, 1, {}, {})

\* ConversationSanitizer._aggressive_cleanup
aggressive_cleanup(msgs) == AggressiveLoop(msgs, 1, {}, {})

MaxErrorRepeats == 2

\* error_count.get(error_sig, 0)
Get(dict, key) == IF key \in DOMAIN dict THEN dict[key] ELSE 0

\* error_count[error_sig] = value
Put(dict, key, value) == [k \in DOMAIN dict \cup {key} |-> IF k = key THEN value ELSE dict[k]]

\* The loop of _balanced_cleanup from position i (1-based) on.
RECURSIVE BalancedLoop(_, _, _)
BalancedLoop(msgs, i, error_count) ==
    IF i > Len(msgs) THEN <<>>
    ELSE LET msg == msgs[i]
             error_sig == get_error_signature(msg.content)
             count_after == IF is_error(msg)
                            THEN Put(error_count, error_sig, Get(error_count, error_sig) + 1)
                            ELSE error_count
         IN  IF is_error(msg) /\ count_after[error_sig] > MaxErrorRepeats
             THEN BalancedLoop(msgs, i + 1, count_after)
             ELSE IF is_filler_message(msg)
             THEN BalancedLoop(msgs, i + 1, count_after)
             ELSE <<msg>> \o BalancedLoop(msgs, i + 1, count_after)

\* A slip in _balanced_cleanup: == 2 for > 2, so the second occurrence of a
\* signature is the one that goes.
RECURSIVE BalancedLoopSecondOnly(_, _, _)
BalancedLoopSecondOnly(msgs, i, error_count) ==
    IF i > Len(msgs) THEN <<>>
    ELSE LET msg == msgs[i]
             error_sig == get_error_signature(msg.content)
             count_after == IF is_error(msg)
                            THEN Put(error_count, error_sig, Get(error_count, error_sig) + 1)
                            ELSE error_count
         IN  IF is_error(msg) /\ count_after[error_sig] = MaxErrorRepeats
             THEN BalancedLoopSecondOnly(msgs, i + 1, count_after)
             ELSE IF is_filler_message(msg)
             THEN BalancedLoopSecondOnly(msgs, i + 1, count_after)
             ELSE <<msg>> \o BalancedLoopSecondOnly(msgs, i + 1, count_after)

balanced_cleanup_second_only(msgs) == BalancedLoopSecondOnly(msgs, 1, <<>>)

\* A slip in _balanced_cleanup: cleaned starts as the input list, not as [].
balanced_cleanup_from_input(msgs) == msgs \o BalancedLoop(msgs, 1, <<>>)

\* ConversationSanitizer._balanced_cleanup
balanced_cleanup(msgs) == BalancedLoop(msgs, 1, <<>>)

\* A slip in sanitize: the branches of AGGRESSIVE and MINIMAL are exchanged.
sanitize_levels_exchanged(lvl, msgs, an) ==
    LET remove_indices == get_removal_indices(msgs, an.loops_detected)
        kept == SelectSeq(Indices(msgs), LAMBDA i : i \notin remove_indices)
        filtered == [k \in 1..Len(kept) |-> At(msgs, kept[k])]
    IN  IF lvl = "minimal" THEN aggressive_cleanup(filtered)
        ELSE IF lvl = "balanced" THEN balanced_cleanup(filtered)
        ELSE filtered

\* A slip in sanitize: MINIMAL runs the cleanup of BALANCED too.
sanitize_minimal_cleans(lvl, msgs, an) ==
    LET remove_indices == get_removal_indices(msgs, an.loops_detected)
        kept == SelectSeq(Indices(msgs), LAMBDA i : i \notin remove_indices)
        filtered == [k \in 1..Len(kept) |-> At(msgs, kept[k])]
    IN  IF lvl = "aggressive" THEN aggressive_cleanup(filtered)
        ELSE balanced_cleanup(filtered)

\* ConversationSanitizer.sanitize, for a sanitizer of the given level
sanitize(lvl, msgs, an) ==
    LET remove_indices == get_removal_indices(msgs, an.loops_detected)
        kept == SelectSeq(Indices(msgs), LAMBDA i : i \notin remove_indices)
        filtered == [k \in 1..Len(kept) |-> At(msgs, kept[k])]
    IN  IF lvl = "aggressive" THEN aggressive_cleanup(filtered)
        ELSE IF lvl = "balanced" THEN balanced_cleanup(filtered)
        ELSE filtered

\* A slip in get_removal_stats: an empty original counts as fully reduced.
ReductionPercentOfEmpty(removed_count, original_count) ==
    IF original_count = 0 THEN 1000
    ELSE (removed_count * 1000) \div original_count

\* A slip in get_removal_stats: the percentage is cut to its tenth, not rounded.
ReductionPercentTruncated(removed_count, original_count) ==
    IF original_count = 0 THEN 0
    ELSE (removed_count * 1000) \div original_count

\* round(removed_count / len(original) * 100, 1), in tenths of a percent: the
\* nearest tenth, and the even one of two equally near.
ReductionPercent(removed_count, original_count) ==
    IF original_count = 0 THEN 0
    ELSE LET num == removed_count * 1000
             q == num \div original_count
             r == num % original_count
         IN  IF 2 * r > original_count THEN q + 1
             ELSE IF 2 * r < original_count THEN q
             ELSE IF q % 2 = 0 THEN q ELSE q + 1

\* ConversationSanitizer.get_removal_stats. id(msg) is the field id of a message.
get_removal_stats(original, sanitized_msgs) ==
    LET removed_count == Len(original) - Len(sanitized_msgs)
        original_set == {sanitized_msgs[k].id : k \in 1..Len(sanitized_msgs)}
        removed == SelectSeq(original, LAMBDA msg : msg.id \notin original_set)
    IN  [total_removed |-> removed_count,
         errors_removed |-> Len(SelectSeq(removed, is_error)),
         apologies_removed |-> Len(SelectSeq(removed, LAMBDA msg : is_apology(msg.content))),
         code_blocks_removed |->
             Len(SelectSeq(removed, LAMBDA msg : extract_code_blocks(msg.content) # <<>>)),
         original_count |-> Len(original),
         sanitized_count |-> Len(sanitized_msgs),
         reduction_percent |-> ReductionPercent(removed_count, Len(original))]

-----------------------------------------------------------------------------
(* The state machine: a conversation is loaded, analyzed, sanitized at a   *)
(* level, and the removal statistics are computed (the order of cli.py's   *)
(* rescue and of the tests).  pc is "loading", "analyzed", "sanitized",    *)
(* "done".                                                                 *)

MaxLen == 3
DefaultThreshold == 3

\* Message(role, content); id stands for the identity id(msg) of the object.
Message(id, role, content) == [id |-> id, role |-> role, content |-> content]

\* The messages the conversations of Spec are drawn from.
Pool ==
    {<<"user", TxtStill>>, <<"user", TxtFailed>>, <<"user", TxtApologyShort>>,
     <<"assistant", TxtFailedUpper>>, <<"assistant", TxtApologyShort>>,
     <<"assistant", TxtApologyCodeA>>, <<"assistant", TxtApologyCodeB>>,
     <<"system", TxtNullPointer>>}

\* The messages the conversations of SpecAnalyze are drawn from.
AnalyzePool ==
    {<<"user", TxtStill>>, <<"user", TxtFailed>>, <<"user", TxtApologyShort>>,
     <<"user", TxtLongFailed>>, <<"user", TxtLongFine>>,
     <<"assistant", TxtFailedUpper>>, <<"assistant", TxtCannot>>,
     <<"assistant", TxtLongCannot>>, <<"assistant", TxtApologyShort>>,
     <<"assistant", TxtApologyCodeA>>, <<"assistant", TxtCode10a>>,
     <<"assistant", TxtCode10b>>, <<"assistant", TxtCode11>>,
     <<"assistant", TxtThreeBlocks>>, <<"assistant", TxtEmptyBlock>>,
     <<"system", TxtNullPointer>>, <<"system", TxtApologyShort>>}

\* error_threshold, apology_threshold of RuleBasedAnalyzer.__init__
Thresholds == 1..DefaultThreshold

\* The pattern types of LoopPattern.pattern_type
PatternTypes == {"repetitive_error", "circular_logic", "apology_cascade", "code_churn"}

\* The patterns of an Analysis that is handed to the sanitizer without running
\* the rule-based analyzer (the tests' Analysis(...), an external analyzer's
\* reply): any type, 0 <= first_index <= last_index <= len.
GivenPatterns(len) ==
    {LoopPattern(t, DefaultThreshold, idx[1], idx[2], "Multiple apologies") :
        t \in PatternTypes,
        idx \in {pair \in (0..len) \X (0..len) : pair[1] <= pair[2]}}

\* loops_detected of such an Analysis: no pattern, or one.
GivenLoops(len) == {<<>>} \cup {<<l>> : l \in GivenPatterns(len)}

\* Before analyze_conversation, sanitize and get_removal_stats have run, their
\* results do not exist: pc tells which of analysis, sanitized, stats are set.
Unset == [by |-> "unset"]

Init ==
    /\ messages = <<>>
    /\ analysis = Unset
    /\ level = Null
    /\ sanitized = <<>>
    /\ stats = Unset
    /\ pc = "loading"
    /\ config = Unset

\* messages.append(Message(role=..., content=...)): the conversation is built
\* message by message, each a new object, from the messages of pool.
Load(pool) ==
    /\ pc = "loading"
    /\ Len(messages) < MaxLen
    /\ \E m \in pool :
          messages' = Append(messages, Message(Len(messages) + 1, m[1], m[2]))
    /\ UNCHANGED <<analysis, level, sanitized, stats, pc, config>>

\* analyzer = RuleBasedAnalyzer(error_threshold, apology_threshold);
\* analysis = analyzer.analyze_conversation(messages)
Analyze ==
    /\ pc = "loading"
    /\ \E error_threshold \in Thresholds, apology_threshold \in Thresholds :
          analysis' = [by |-> "rules",
                       error_threshold |-> error_threshold,
                       apology_threshold |-> apology_threshold,
                       result |-> analyze_conversation(messages, error_threshold,
                                                       apology_threshold)]
    /\ pc' = "analyzed"
    /\ UNCHANGED <<messages, level, sanitized, stats, config>>

\* analysis = Analysis(goal="Test", blocker="Test", key_insights=[], loops_detected=...)
GiveAnalysis ==
    /\ pc = "loading"
    /\ \E loops \in GivenLoops(Len(messages)) :
          analysis' = [by |-> "given",
                       result |-> Analysis("Test", "Test", <<>>, loops, Null, <<>>)]
    /\ pc' = "analyzed"
    /\ UNCHANGED <<messages, level, sanitized, stats, config>>

\* sanitizer = ConversationSanitizer(level); sanitized = sanitizer.sanitize(messages, analysis)
Sanitize ==
    /\ pc = "analyzed"
    /\ \E lvl \in SanitizationLevel :
          /\ level' = lvl
          /\ sanitized' = sanitize(lvl, messages, analysis.result)
    /\ pc' = "sanitized"
    /\ UNCHANGED <<messages, analysis, stats, config>>

\* stats = sanitizer.get_removal_stats(messages, sanitized)
GetRemovalStats ==
    /\ pc = "sanitized"
    /\ stats' = get_removal_stats(messages, sanitized)
    /\ pc' = "done"
    /\ UNCHANGED <<messages, analysis, level, sanitized, config>>

Next == Load(Pool) \/ Analyze \/ GiveAnalysis \/ Sanitize \/ GetRemovalStats

Spec == Init /\ [][Next]_vars

\* The rule-based analyzer alone, over a wider choice of messages.
NextAnalyze == Load(AnalyzePool) \/ Analyze

SpecAnalyze == Init /\ [][NextAnalyze]_vars

\* The messages the conversations of SpecCleanup are drawn from: what the
\* cleanups of the balanced and the aggressive level tell apart.
CleanupPool ==
    {<<"user", TxtCannot>>, <<"assistant", TxtCannot>>, <<"system", TxtNullPointer>>,
     <<"assistant", TxtApologyCodeA>>, <<"assistant", TxtLongFailedCode>>,
     <<"user", TxtLongFailed>>, <<"assistant", TxtPadded>>, <<"user", TxtOkay>>}

NextCleanup == Load(CleanupPool) \/ GiveAnalysis \/ Sanitize

SpecCleanup == Init /\ [][NextCleanup]_vars

\* The messages the conversations of SpecChurn are drawn from: blocks of 4,
\* 9, 10 and 11 characters, an empty block, and a message without code.
ChurnPool ==
    {<<"assistant", TxtTwoBlocksA>>, <<"assistant", TxtTwoBlocksB>>,
     <<"assistant", TxtTwoBlocksC>>, <<"assistant", TxtThreeBlocks>>,
     <<"assistant", TxtEmptyBlock>>, <<"assistant", TxtCode10b>>, <<"user", TxtStill>>}

NextChurn == Load(ChurnPool) \/ Analyze

SpecChurn == Init /\ [][NextChurn]_vars

\* The messages the conversations of SpecBlocker are drawn from: errors with
\* and without a line that mentions a blocker word, an apology, and a message
\* without any of these.
BlockerPool ==
    {<<"user", TxtFailed>>, <<"assistant", TxtCannot>>, <<"assistant", TxtApologyLong>>,
     <<"user", TxtOkay>>, <<"user", TxtTraceback>>, <<"user", TxtLongLineFailed>>}

\* The lengths of the tail that brings a conversation to the 10 messages
\* _identify_blocker looks back, or past them.
TailLengths == {BlockerWindow - 2, BlockerWindow - 1}

\* The conversation goes on with messages that hold no error and no apology.
LoadTail ==
    /\ pc = "loading"
    /\ Len(messages) <= MaxLen
    /\ \E n \in TailLengths :
          messages' = messages \o [k \in 1..n |-> Message(Len(messages) + k, "user", TxtOkay)]
    /\ UNCHANGED <<analysis, level, sanitized, stats, pc, config>>

NextBlocker == Load(BlockerPool) \/ LoadTail \/ Analyze

SpecBlocker == Init /\ [][NextBlocker]_vars

\* The messages the conversations of SpecGoal are drawn from: around the
\* lengths and roles _extract_goal tests.
GoalPool ==
    {<<"user", TxtStill>>, <<"user", TxtGoal50>>, <<"user", TxtGoal51>>,
     <<"user", TxtGoalLines>>, <<"user", TxtGoal200>>, <<"user", TxtGoal201>>,
     <<"assistant", TxtGoal201>>, <<"system", TxtLongFine>>}

NextGoal == Load(GoalPool) \/ Analyze

SpecGoal == Init /\ [][NextGoal]_vars

\* Scenario A: 8 messages, user and assistant in turn, every assistant message
\* an apology and no user message one (the shape of SAMPLE_LOOP_CONVERSATION),
\* analyzed with apology_threshold = 3 and then sanitized.
ScenarioLen == 8
ScenarioUsers == {TxtStill, TxtFailed}
ScenarioAssistants == {TxtApologyCodeA, TxtApologyCodeB, TxtApologyShort, TxtApologyLong}

LoadScenarioA ==
    /\ pc = "loading"
    /\ Len(messages) < ScenarioLen
    /\ \/ /\ Len(messages) % 2 = 0
          /\ \E content \in ScenarioUsers :
                messages' = Append(messages, Message(Len(messages) + 1, "user", content))
       \/ /\ Len(messages) % 2 = 1
          /\ \E content \in ScenarioAssistants :
                messages' = Append(messages, Message(Len(messages) + 1, "assistant", content))
    /\ UNCHANGED <<analysis, level, sanitized, stats, pc, config>>

\* analyzer = RuleBasedAnalyzer(error_threshold, apology_threshold=3)
AnalyzeScenarioA ==
    /\ pc = "loading"
    /\ Len(messages) = ScenarioLen
    /\ \E error_threshold \in Thresholds :
          analysis' = [by |-> "rules",
                       error_threshold |-> error_threshold,
                       apology_threshold |-> DefaultThreshold,
                       result |-> analyze_conversation(messages, error_threshold,
                                                       DefaultThreshold)]
    /\ pc' = "analyzed"
    /\ UNCHANGED <<messages, level, sanitized, stats, config>>

NextScenarioA == LoadScenarioA \/ AnalyzeScenarioA \/ Sanitize

SpecScenarioA == Init /\ [][NextScenarioA]_vars

-----------------------------------------------------------------------------
(* cli.py, config.py: the commands rescue and analyze.  pc is "loading"    *)
(* (nothing run yet), "configured", "parsed", "analysis_failed" (the       *)
(* selected analyzer raised), "analyzed", "sanitized", "done", or "error"  *)
(* (the command printed the error and exited with status 1).               *)

\* AnalyzerProvider
AnalyzerProvider == {"gemini", "claude", "openai", "none"}

\* --max-messages: its default
DefaultMaxMessages == 100

\* a value that is no SanitizationLevel
UnknownLevel == "extreme"

\* SANITIZATION_LEVEL of the environment, --sanitization, --max-messages
EnvLevels == {"aggressive", UnknownLevel}
OptionLevels == SanitizationLevel \cup {UnknownLevel}
MaxMessagesOptions == {1, DefaultMaxMessages}

\* Config._get_sanitization_level: an unknown value gives BALANCED
get_sanitization_level(level_str) ==
    IF level_str \in SanitizationLevel THEN level_str ELSE "balanced"

\* Config(): api_key tells whether the key of the selected provider is set
Config(command, provider, api_key, env_level, option_level) ==
    [command |-> command,
     analyzer_provider |-> provider,
     api_key |-> api_key,
     env_level |-> env_level,
     option_level |-> option_level,
     sanitization_level |-> get_sanitization_level(env_level),
     max_messages_to_analyze |-> DefaultMaxMessages]

\* rescue: config = Config(); the overrides by --analyzer, --sanitization and
\* --max-messages.  An unknown --sanitization value is refused (click.Choice,
\* and SanitizationLevel(sanitization.lower()) raises ValueError): the command
\* exits with the error.
ConfigureRescue ==
    /\ pc = "loading"
    /\ config = Unset
    /\ messages = <<>>
    /\ \E provider \in AnalyzerProvider, api_key \in BOOLEAN, env_level \in EnvLevels,
          sanitization \in OptionLevels, max_messages \in MaxMessagesOptions :
          LET loaded == Config("rescue", provider, api_key, env_level, sanitization)
          IN  IF sanitization \in SanitizationLevel
              THEN /\ config' = [loaded EXCEPT !.sanitization_level = sanitization,
                                               !.max_messages_to_analyze = max_messages]
                   /\ pc' = "configured"
              ELSE /\ config' = loaded
                   /\ pc' = "error"
    /\ UNCHANGED <<messages, analysis, level, sanitized, stats>>

\* analyze: config = Config(); the override by --analyzer
ConfigureAnalyze ==
    /\ pc = "loading"
    /\ config = Unset
    /\ messages = <<>>
    /\ \E provider \in AnalyzerProvider, api_key \in BOOLEAN, env_level \in EnvLevels :
          config' = Config("analyze", provider, api_key, env_level, Null)
    /\ pc' = "configured"
    /\ UNCHANGED <<messages, analysis, level, sanitized, stats>>

\* The messages of the parsed files: user and assistant messages, stripped.
CliPool ==
    {<<"user", TxtFailed>>, <<"assistant", TxtApologyShort>>, <<"assistant", TxtApologyCodeA>>}

\* parse_conversation_file: messages.append(Message(role=current_role, content=...))
ParseMessage ==
    /\ pc = "configured"
    /\ Len(messages) < MaxLen
    /\ \E m \in CliPool :
          messages' = Append(messages, Message(Len(messages) + 1, m[1], m[2]))
    /\ UNCHANGED <<analysis, level, sanitized, stats, pc, config>>

\* messages = parse_conversation_file(input) returns; rescue keeps the last
\* max_messages of them: messages = messages[-max_messages:]
LimitMessages ==
    /\ pc = "configured"
    /\ messages' = IF /\ config.command = "rescue"
                      /\ Len(messages) > config.max_messages_to_analyze
                   THEN LastN(messages, config.max_messages_to_analyze)
                   ELSE messages
    /\ pc' = "parsed"
    /\ UNCHANGED <<analysis, level, sanitized, stats, config>>

\* GeminiAnalyzer._create_loop_pattern: first_index = last_index = 0
GeminiPatterns ==
    {LoopPattern(t, n, 0, 0, "No description") :
        t \in PatternTypes \cup {"unknown"}, n \in {1, DefaultThreshold}}

\* GeminiAnalyzer._parse_loops: no pattern, or one
GeminiLoops == {<<>>} \cup {<<l>> : l \in GeminiPatterns}

\* RuleBasedAnalyzer().analyze_conversation(messages)
RuleBasedAnalysis(by, msgs) ==
    [by |-> by,
     error_threshold |-> DefaultThreshold,
     apology_threshold |-> DefaultThreshold,
     result |-> analyze_conversation(msgs, DefaultThreshold, DefaultThreshold)]

\* analyzer_instance = config.get_analyzer();
\* analysis = analyzer_instance.analyze_conversation(messages).
\* get_analyzer raises ValueError without the key of the provider and
\* NotImplementedError for claude and openai; the Gemini analyzer returns the
\* Analysis parsed from the reply, or raises (the API call, response.text).
RunAnalyzer ==
    /\ pc = "parsed"
    /\ \/ /\ config.analyzer_provider = "none"
          /\ analysis' = RuleBasedAnalysis("rules", messages)
          /\ pc' = "analyzed"
       \/ /\ config.analyzer_provider = "gemini"
          /\ config.api_key
          /\ \E loops \in GeminiLoops :
                analysis' = [by |-> "gemini",
                             result |-> Analysis("Goal not clearly identified",
                                                 "Blocker not identified",
                                                 <<>>, loops, Null, <<>>)]
          /\ pc' = "analyzed"
       \/ /\ config.analyzer_provider # "none"
          /\ pc' = "analysis_failed"
          /\ UNCHANGED analysis
    /\ UNCHANGED <<messages, level, sanitized, stats, config>>

\* A slip in rescue: the analysis try has no except of its own, so the failure
\* reaches the except of the command, which exits.
RescueFallbackMissing ==
    /\ pc = "analysis_failed"
    /\ config.command = "rescue"
    /\ pc' = "error"
    /\ UNCHANGED <<messages, analysis, level, sanitized, stats, config>>

\* rescue, except Exception: analysis = RuleBasedAnalyzer().analyze_conversation(messages)
RescueFallback ==
    /\ pc = "analysis_failed"
    /\ config.command = "rescue"
    /\ analysis' = RuleBasedAnalysis("fallback", messages)
    /\ pc' = "analyzed"
    /\ UNCHANGED <<messages, level, sanitized, stats, config>>

\* analyze, except Exception: the error is printed and sys.exit(1)
AnalyzeExit ==
    /\ pc = "analysis_failed"
    /\ config.command = "analyze"
    /\ pc' = "error"
    /\ UNCHANGED <<messages, analysis, level, sanitized, stats, config>>

\* rescue: sanitizer = ConversationSanitizer(level=config.sanitization_level);
\* sanitized = sanitizer.sanitize(messages, analysis)
RescueSanitize ==
    /\ pc = "analyzed"
    /\ config.command = "rescue"
    /\ level' = config.sanitization_level
    /\ sanitized' = sanitize(config.sanitization_level, messages, analysis.result)
    /\ pc' = "sanitized"
    /\ UNCHANGED <<messages, analysis, stats, config>>

NextCli ==
    \/ ConfigureRescue \/ ConfigureAnalyze \/ ParseMessage \/ LimitMessages
    \/ RunAnalyzer \/ RescueFallback \/ AnalyzeExit \/ RescueSanitize \/ GetRemovalStats

SpecCli == Init /\ [][NextCli]_vars

\* rescue runs on, statement after statement: the except branch, sanitize and
\* get_removal_stats each run once reached.  The step of the except branch is
\* named by its positions: RescueFallback is the one step of NextCli from
\* "analysis_failed" to "analyzed".
SpecCliFair ==
    /\ SpecCli
    /\ WF_pc(pc = "analysis_failed" /\ config.command = "rescue" /\ pc' = "analyzed")
    /\ WF_vars(RescueSanitize)
    /\ WF_vars(GetRemovalStats)

-----------------------------------------------------------------------------
(* Properties of sanitize (Spec)                                           *)

Sanitized == pc \in {"sanitized", "done"}

LoopsDetected == analysis.result.loops_detected

\* C1: at every level and for every analysis, the output of sanitize is no
\* longer than its input.
SanitizeNeverLonger == Sanitized => Len(sanitized) <= Len(messages)

\* sanitize has removed messages of a conversation with a detected loop, and kept some
SanitizeShortens ==
    /\ Sanitized
    /\ LoopsDetected # <<>>
    /\ 0 < Len(sanitized)
    /\ Len(sanitized) < Len(messages)

\* out is input[f[1]], input[f[2]], ... for strictly increasing positions f
IsSubsequence(out, input) ==
    \E f \in [1..Len(out) -> 1..Len(input)] :
        /\ \A k \in 1..Len(out) : out[k] = input[f[k]]
        /\ \A k \in 1..(Len(out) - 1) : f[k] < f[k + 1]

\* C2: the step that sanitizes leaves the input list as it is, and its output
\* is made of input messages, unchanged (role, content, identity), at strictly
\* increasing input positions.
SanitizeIsSubsequence ==
    [][pc = "analyzed" /\ pc' = "sanitized"
           => messages' = messages /\ IsSubsequence(sanitized', messages)]_vars

\* an aggressive or balanced run kept two or more messages and dropped one between or around them
SubsequenceWithGap ==
    /\ Sanitized
    /\ level # "minimal"
    /\ Len(sanitized) >= 2
    /\ Len(sanitized) < Len(messages)

\* C3: for the same messages and analysis, aggressive keeps no more than
\* balanced, which keeps no more than minimal (looked at when sanitize has
\* returned; get_removal_stats changes none of the three).
LevelsMonotone ==
    pc = "sanitized" =>
        LET aggressive == sanitize("aggressive", messages, analysis.result)
            balanced == sanitize("balanced", messages, analysis.result)
            minimal == sanitize("minimal", messages, analysis.result)
        IN  /\ sanitized = CASE level = "aggressive" -> aggressive
                             [] level = "balanced" -> balanced
                             [] level = "minimal" -> minimal
            /\ Len(aggressive) <= Len(balanced)
            /\ Len(balanced) <= Len(minimal)

\* the three levels give three different lengths
LevelsStrict ==
    /\ Sanitized
    /\ Len(sanitize("aggressive", messages, analysis.result))
           < Len(sanitize("balanced", messages, analysis.result))
    /\ Len(sanitize("balanced", messages, analysis.result))
           < Len(sanitize("minimal", messages, analysis.result))

\* the filler rule, as the table of IsFillerOf
Filler(m) == FillerMemo[m.content][m.role]

\* no message is error-bearing by the sanitizer's _is_error; a conversation with
\* no error-bearing message by the analyzer's longer list of indicators is one of these
NoErrorBearing == \A k \in 1..Len(messages) : ~SanitizerErrorMemo[messages[k].content]

\* C8: with no loop detected and no error-bearing message, balanced sanitize
\* returns the input without its filler messages, in order.
BalancedRemovesFillerOnly ==
    (Sanitized /\ level = "balanced" /\ LoopsDetected = <<>> /\ NoErrorBearing)
        => sanitized = SelectSeq(messages, LAMBDA m : ~Filler(m))

\* balanced sanitize with no loop dropped a filler message and kept a short user message
FillerOnlyRemoved ==
    /\ Sanitized /\ level = "balanced" /\ LoopsDetected = <<>> /\ NoErrorBearing
    /\ \E k \in 1..Len(messages) : Filler(messages[k])
    /\ \E k \in 1..Len(sanitized) :
          sanitized[k].role = "user" /\ FillerMemo[sanitized[k].content]["assistant"]

\* C9: on the empty conversation the rule-based analysis is the three sentinels
\* with no loop, sanitize returns the empty list at every level, and the stats
\* report nothing removed and a reduction of 0.
EmptyConversation ==
    messages = <<>> =>
        /\ (pc # "loading" /\ analysis.by = "rules") =>
               /\ analysis.result.goal = "Goal not clearly identified from conversation"
               /\ analysis.result.blocker = "Blocker not clearly identified"
               /\ analysis.result.current_state = "Current state unclear"
               /\ analysis.result.loops_detected = <<>>
        /\ Sanitized => sanitized = <<>>
        /\ pc = "done" =>
               /\ stats.total_removed = 0
               /\ stats.reduction_percent = 0

\* the empty conversation went through the rule-based analysis, sanitize and the stats
EmptyConversationDone ==
    /\ messages = <<>>
    /\ pc = "done"
    /\ analysis.by = "rules"
    /\ level = "aggressive"

-----------------------------------------------------------------------------
(* Properties of the rule-based detectors (SpecAnalyze)                    *)

AnalyzedByRules == pc # "loading" /\ analysis.by = "rules"

PatternsOfType(pattern_type) ==
    SelectSeq(LoopsDetected, LAMBDA l : l.pattern_type = pattern_type)

SetMin(S) == CHOOSE i \in S : \A j \in S : i <= j
SetMax(S) == CHOOSE i \in S : \A j \in S : j <= i

\* the Python indices of the assistant messages that hold an apology phrase
AssistantApologies ==
    {i \in 0..(Len(messages) - 1) :
        At(messages, i).role = "assistant" /\ ApologyMemo[At(messages, i).content]}

\* C4: with at least apology_threshold assistant apologies there is exactly one
\* apology_cascade pattern, from the first to the last of them, counting them;
\* with fewer there is none, whatever user and system messages say.
ApologyCascadeExact ==
    AnalyzedByRules =>
        IF Cardinality(AssistantApologies) >= analysis.apology_threshold
        THEN PatternsOfType("apology_cascade") =
                 <<LoopPattern("apology_cascade",
                               Cardinality(AssistantApologies),
                               SetMin(AssistantApologies),
                               SetMax(AssistantApologies),
                               PatternsOfType("apology_cascade")[1].description)>>
        ELSE PatternsOfType("apology_cascade") = <<>>

\* a cascade is reported for a conversation in which a user apologizes too
ApologyCascadeAmongUserApologies ==
    /\ AnalyzedByRules
    /\ PatternsOfType("apology_cascade") # <<>>
    /\ Cardinality(AssistantApologies) > 1
    /\ \E k \in 1..Len(messages) :
          messages[k].role # "assistant" /\ ApologyMemo[messages[k].content]

\* the Python indices of the error-bearing messages
ErrorBearing ==
    {i \in 0..(Len(messages) - 1) : ErrorMessageMemo[At(messages, i).content]}

\* the error-bearing messages with the signature of message i
SameSignature(i) ==
    {j \in ErrorBearing : DetectorSignatureMemo[At(messages, j).content]
                              = DetectorSignatureMemo[At(messages, i).content]}

\* the first message of each signature that occurs error_threshold times or more
RepeatedSignatures ==
    {i \in ErrorBearing : /\ i = SetMin(SameSignature(i))
                          /\ Cardinality(SameSignature(i)) >= analysis.error_threshold}

\* C5: there is a repetitive_error pattern for a signature exactly when the
\* signature occurs error_threshold times or more among the error-bearing
\* messages; the pattern counts the occurrences and spans the first and the last.
RepetitiveErrorExact ==
    AnalyzedByRules =>
        LET pats == PatternsOfType("repetitive_error")
        IN  /\ Len(pats) = Cardinality(RepeatedSignatures)
            /\ \A i \in RepeatedSignatures :
                  \E k \in 1..Len(pats) :
                      /\ pats[k].first_index = i
                      /\ pats[k].last_index = SetMax(SameSignature(i))
                      /\ pats[k].occurrences = Cardinality(SameSignature(i))

\* one signature is reported and another, which occurs less often, is not
RepetitiveErrorSome ==
    /\ AnalyzedByRules
    /\ analysis.error_threshold > 1
    /\ PatternsOfType("repetitive_error") # <<>>
    /\ \E i \in ErrorBearing : Cardinality(SameSignature(i)) < analysis.error_threshold

\* no two fenced code blocks of the conversation have the same text
NoRepeatedCode ==
    LET code_blocks == CollectCodeBlocks(messages, 0)
    IN  \A j, k \in 1..Len(code_blocks) : j # k => code_blocks[j][2] # code_blocks[k][2]

\* C7: a conversation with no error-bearing message, no apology and no repeated
\* code block gives no loop at all.
CleanConversationNoLoops ==
    (/\ AnalyzedByRules
     /\ ErrorBearing = {}
     /\ \A k \in 1..Len(messages) : ~ApologyMemo[messages[k].content]
     /\ NoRepeatedCode)
        => LoopsDetected = <<>>

\* C10: every pattern of the rule-based analyzer has
\* 0 <= first_index <= last_index < len(messages) and occurrences >= 1.
PatternIndicesValid ==
    AnalyzedByRules =>
        \A k \in 1..Len(LoopsDetected) :
            /\ 0 <= LoopsDetected[k].first_index
            /\ LoopsDetected[k].first_index <= LoopsDetected[k].last_index
            /\ LoopsDetected[k].last_index < Len(messages)
            /\ LoopsDetected[k].occurrences >= 1

\* the three detectors each report a pattern, one of them ending at the last message
AllPatternTypes ==
    /\ AnalyzedByRules
    /\ PatternsOfType("repetitive_error") # <<>>
    /\ PatternsOfType("apology_cascade") # <<>>
    /\ PatternsOfType("code_churn") # <<>>
    /\ \E k \in 1..Len(LoopsDetected) : LoopsDetected[k].last_index = Len(messages) - 1

-----------------------------------------------------------------------------
(* Scenario A (SpecScenarioA)                                              *)

\* the message at Python index i of the input is in the output
Kept(i) == \E k \in 1..Len(sanitized) : sanitized[k].id = i + 1

BalancedDone == pc = "sanitized" /\ level = "balanced"

\* the analysis of scenario A has exactly one apology_cascade pattern, of the
\* four assistant messages, from index 1 to index 7
ScenarioACascade ==
    PatternsOfType("apology_cascade") =
        <<LoopPattern("apology_cascade", 4, 1, 7,
                      "Model apologized 4 times without making progress")>>

\* a repetitive_error or code_churn pattern of the analysis marks index i for removal
MarkedByOtherPattern(i) ==
    \E k \in 1..Len(LoopsDetected) :
        \/ /\ LoopsDetected[k].pattern_type = "repetitive_error"
           /\ LoopsDetected[k].first_index < i
           /\ i <= LoopsDetected[k].last_index
        \/ /\ LoopsDetected[k].pattern_type = "code_churn"
           /\ LoopsDetected[k].first_index <= i
           /\ i < LoopsDetected[k].last_index

-----------------------------------------------------------------------------
(* Properties of get_removal_stats (Spec)                                  *)

Abs(n) == IF n < 0 THEN -n ELSE n

\* the messages of the input whose identity is absent from the output
RemovedMessages ==
    SelectSeq(messages, LAMBDA m : \A k \in 1..Len(sanitized) : sanitized[k].id # m.id)

\* C11: the stats of a sanitize run count the input and the output,
\* total_removed is their difference and is not negative, and
\* reduction_percent (in tenths of a percent) is 0 for an empty input and
\* otherwise the tenth nearest to total_removed / original_count * 100,
\* between 0 and 100.
StatsConsistent ==
    pc = "done" =>
        /\ stats.original_count = Len(messages)
        /\ stats.sanitized_count = Len(sanitized)
        /\ stats.total_removed = stats.original_count - stats.sanitized_count
        /\ stats.total_removed >= 0
        /\ 0 <= stats.reduction_percent /\ stats.reduction_percent <= 1000
        /\ IF stats.original_count = 0
           THEN stats.reduction_percent = 0
           ELSE 2 * Abs(stats.reduction_percent * stats.original_count
                            - 1000 * stats.total_removed) <= stats.original_count

\* two of three messages were removed: 66.666... percent, reported as 66.7
StatsRoundedUp ==
    /\ pc = "done"
    /\ stats.original_count = 3
    /\ stats.total_removed = 2
    /\ stats.reduction_percent = 667

\* C12: errors_removed, apologies_removed and code_blocks_removed count the
\* removed messages that are error-bearing (by the detector's indicators,
\* 'null pointer' and 'segmentation fault' among them), apology-bearing and
\* code-bearing, each on its own, and none exceeds total_removed.
StatsCategoriesByDetector ==
    pc = "done" =>
        /\ stats.errors_removed =
               Len(SelectSeq(RemovedMessages, LAMBDA m : ErrorMessageMemo[m.content]))
        /\ stats.apologies_removed =
               Len(SelectSeq(RemovedMessages, LAMBDA m : ApologyMemo[m.content]))
        /\ stats.code_blocks_removed =
               Len(SelectSeq(RemovedMessages, LAMBDA m : CodeBlocksMemo[m.content] # <<>>))
        /\ stats.errors_removed <= stats.total_removed
        /\ stats.apologies_removed <= stats.total_removed
        /\ stats.code_blocks_removed <= stats.total_removed

-----------------------------------------------------------------------------
(* Properties of the commands (SpecCli, SpecCliFair)                       *)

RescueFailed == pc = "analysis_failed" /\ config.command = "rescue"

\* C13: in rescue, when the selected analyzer raises, the next step runs the
\* rule-based analyzer on the same messages; sanitize runs only from an
\* analysis that was produced, on those messages and that analysis, and the
\* stats are computed from them; and a rescue whose analyzer raised always
\* reaches the stats of the fallback analysis.
RescueFallsBack ==
    /\ [][RescueFailed =>
             /\ pc' = "analyzed"
             /\ messages' = messages
             /\ analysis'.by = "fallback"
             /\ analysis'.result =
                    analyze_conversation(messages, DefaultThreshold, DefaultThreshold)]_vars
    /\ [][(pc # "sanitized" /\ pc' = "sanitized") =>
             /\ pc = "analyzed"
             /\ analysis.by \in {"rules", "gemini", "fallback"}
             /\ analysis' = analysis
             /\ messages' = messages
             /\ sanitized' = sanitize(config.sanitization_level, messages, analysis.result)]_vars
    /\ [][(pc = "sanitized" /\ pc' # "sanitized") =>
             /\ pc' = "done"
             /\ analysis' = analysis
             /\ messages' = messages
             /\ stats' = get_removal_stats(messages, sanitized)]_vars
    /\ (RescueFailed ~> (pc = "done" /\ analysis.by = "fallback"))

\* a rescue whose Gemini analyzer raised on a conversation with an apology
\* ran to its stats with the fallback analysis
RescueDoneAfterFailure ==
    /\ pc = "done"
    /\ config.command = "rescue"
    /\ config.analyzer_provider = "gemini"
    /\ config.api_key
    /\ analysis.by = "fallback"
    /\ Len(messages) > 1
    /\ stats.total_removed > 0

\* an unknown sanitization level (environment or option), or no key for the
\* selected external analyzer
ConfigurationError ==
    \/ config.env_level \notin SanitizationLevel
    \/ config.option_level \notin SanitizationLevel \cup {Null}
    \/ config.analyzer_provider # "none" /\ ~config.api_key

\* C14: with a configuration error the command stops with the error before
\* any analysis: no analyzer has run and nothing is sanitized.
ConfigurationErrorStopsRun ==
    (pc # "loading" /\ ConfigurationError) =>
        /\ analysis = Unset
        /\ pc \notin {"analyzed", "sanitized", "done"}

\* C15: in analyze too, when the selected analyzer raises, the next step runs
\* the rule-based analyzer on the same messages and the command goes on to
\* show its results.
AnalyzeFallsBack ==
    [][(pc = "analysis_failed" /\ config.command = "analyze") =>
          /\ pc' = "analyzed"
          /\ messages' = messages
          /\ analysis'.result =
                 analyze_conversation(messages, DefaultThreshold, DefaultThreshold)]_vars

-----------------------------------------------------------------------------
(* Properties of _extract_goal (SpecGoal)                                  *)

\* the positions of the user messages longer than 50 characters
GoalCandidates ==
    {i \in 1..Len(messages) :
        messages[i].role = "user" /\ Len(messages[i].content) > GoalMinLen}

\* the text before the first line break
FirstLine(text) ==
    LET breaks == {i \in 1..Len(text) : SubSeq(text, i, i) = "\n"}
    IN  IF breaks = {} THEN text
        ELSE SubSeq(text, 1, (CHOOSE i \in breaks : \A j \in breaks : i <= j) - 1)

\* C16: the goal is the sentinel exactly when no user message is longer than
\* 50 characters; otherwise it is the first line of the first such user
\* message, unchanged up to 200 characters and else its first 200 characters
\* followed by "...", so never longer than 203; messages of the assistant or
\* the system never give the goal.
GoalFromFirstLongUserMessage ==
    AnalyzedByRules =>
        LET goal == analysis.result.goal
        IN  /\ (goal = GoalSentinel) <=> (GoalCandidates = {})
            /\ GoalCandidates # {} =>
                   LET first == CHOOSE i \in GoalCandidates : \A j \in GoalCandidates : i <= j
                       line == FirstLine(messages[first].content)
                   IN  /\ Len(line) <= GoalMaxLen => goal = line
                       /\ Len(line) > GoalMaxLen =>
                              /\ goal = SubSeq(line, 1, GoalMaxLen) \o "..."
                              /\ Len(goal) = GoalMaxLen + 3
                       /\ Len(goal) <= GoalMaxLen + 3

\* a long assistant message and a user message of exactly 50 characters come
\* before the user message that gives the goal, cut to 203 characters
GoalCutAfterSkippedMessages ==
    /\ AnalyzedByRules
    /\ Len(messages) = 3
    /\ messages[1].role = "assistant" /\ Len(messages[1].content) > GoalMaxLen
    /\ messages[2].role = "user" /\ Len(messages[2].content) = GoalMinLen
    /\ messages[3].role = "user" /\ Len(FirstLine(messages[3].content)) = GoalMaxLen + 1
    /\ Len(analysis.result.goal) = GoalMaxLen + 3

-----------------------------------------------------------------------------
(* Properties of the removal indices (Spec)                                *)

\* sanitize has run on an analysis with exactly one pattern, of the given type
OnePattern(pattern_type) ==
    /\ Sanitized
    /\ Len(LoopsDetected) = 1
    /\ LoopsDetected[1].pattern_type = pattern_type

\* the Python indices of the input, of the marked messages, of the output
AllIndices == 0..(Len(messages) - 1)
Marked == get_removal_indices(messages, LoopsDetected)
KeptIndices == {sanitized[k].id - 1 : k \in 1..Len(sanitized)}

\* no marked message is in the output, and at minimal level the output is
\* the messages that are not marked
RemovedAsMarked(expected) ==
    /\ Marked = expected
    /\ KeptIndices \cap expected = {}
    /\ level = "minimal" => KeptIndices = AllIndices \ expected

\* C17: for one repetitive_error pattern the marked indices are exactly those
\* after first_index up to last_index, whatever the messages there say, and
\* first_index is not marked.
RepetitiveErrorMarksAllButFirst ==
    OnePattern("repetitive_error") =>
        LET loop == LoopsDetected[1]
        IN  /\ RemovedAsMarked({i \in 0..loop.last_index : loop.first_index < i})
            /\ loop.first_index \notin Marked

\* a given repetitive_error pattern over three messages without any error:
\* minimal keeps the first alone
ErrorRangeRemovedWithoutErrors ==
    /\ OnePattern("repetitive_error")
    /\ level = "minimal"
    /\ Len(messages) = 3
    /\ \A i \in AllIndices : ~is_error_message(At(messages, i).content)
    /\ LoopsDetected[1].first_index = 0
    /\ LoopsDetected[1].last_index = 2
    /\ sanitized = <<messages[1]>>

\* C18: for one apology_cascade pattern the marked indices are exactly the
\* messages of [first_index, last_index] that hold an apology phrase, but the
\* first of them; the other messages of the range are not marked; and with two
\* or more apologies in the range the output is shorter than the input.
ApologyCascadeMarksAllButFirstMatch ==
    OnePattern("apology_cascade") =>
        LET loop == LoopsDetected[1]
            matches == {i \in AllIndices : /\ loop.first_index <= i
                                           /\ i <= loop.last_index
                                           /\ ApologyMemo[At(messages, i).content]}
            expected == IF matches = {} THEN {} ELSE matches \ {SetMin(matches)}
        IN  /\ RemovedAsMarked(expected)
            /\ Cardinality(matches) >= 2 => Len(sanitized) < Len(messages)

\* an apology, a message without one, an apology, all in the range: minimal
\* keeps the first two
ApologyRangeKeepsOtherMessages ==
    /\ OnePattern("apology_cascade")
    /\ level = "minimal"
    /\ Len(messages) = 3
    /\ LoopsDetected[1].first_index = 0
    /\ LoopsDetected[1].last_index = 2
    /\ is_apology(messages[1].content)
    /\ ~is_apology(messages[2].content)
    /\ is_apology(messages[3].content)
    /\ sanitized = <<messages[1], messages[2]>>

\* C19: for one code_churn pattern the marked indices are exactly those from
\* first_index up to but without last_index; last_index is not marked, and
\* with first_index = last_index nothing is.
CodeChurnMarksAllButLast ==
    OnePattern("code_churn") =>
        LET loop == LoopsDetected[1]
        IN  /\ RemovedAsMarked({i \in 0..loop.last_index :
                                   loop.first_index <= i /\ i # loop.last_index})
            /\ loop.last_index \notin Marked
            /\ loop.first_index = loop.last_index => Marked = {}

\* a code_churn pattern over three messages: minimal keeps the last alone
ChurnRangeKeepsLast ==
    /\ OnePattern("code_churn")
    /\ level = "minimal"
    /\ Len(messages) = 3
    /\ LoopsDetected[1].first_index = 0
    /\ LoopsDetected[1].last_index = 2
    /\ sanitized = <<messages[3]>>

\* C20: at minimal level the output is the input without the messages at the
\* marked indices, in the order of the input: filler and repeated errors that
\* no pattern marks stay, and without patterns the output is the input.
MinimalRemovesMarkedOnly ==
    (Sanitized /\ level = "minimal") =>
        LET marked == Marked
        IN  /\ sanitized = SelectSeq(messages, LAMBDA msg : (msg.id - 1) \notin marked)
            /\ \A i \in AllIndices \ marked : Kept(i)
            /\ LoopsDetected = <<>> => sanitized = messages

\* a pattern marks the last of three messages; the two before it are the
\* same error twice, which the aggressive level would cut to one, and stay
MinimalKeepsRepeatedError ==
    /\ Sanitized
    /\ level = "minimal"
    /\ Len(messages) = 3
    /\ Marked = {2}
    /\ sanitized = <<messages[1], messages[2]>>
    /\ messages[1].content = messages[2].content
    /\ is_error(messages[1])
    /\ Len(sanitize("aggressive", messages, analysis.result)) = 1

-----------------------------------------------------------------------------
(* Properties of the cleanups (SpecCleanup)                                *)

SecondPass == Sanitized /\ level \in {"balanced", "aggressive"}

\* the messages of the output that are error-bearing by the detectors' test
\* and have the detectors' signature of the message at position k
OutputWithSignatureOf(k) ==
    {j \in 1..Len(sanitized) :
        /\ ErrorMessageMemo[sanitized[j].content]
        /\ DetectorSignatureMemo[sanitized[j].content]
               = DetectorSignatureMemo[sanitized[k].content]}

\* C21: in a balanced output at most 2, in an aggressive output at most 1
\* message that is error-bearing by the detectors' eight indicators has any
\* one signature (the first 100 characters, lowercased).
SecondPassBoundsSignatures ==
    SecondPass =>
        \A k \in 1..Len(sanitized) :
            ErrorMessageMemo[sanitized[k].content] =>
                Cardinality(OutputWithSignatureOf(k))
                    <= (IF level = "balanced" THEN 2 ELSE 1)

\* the intermediate sequence: the input without the marked messages
Intermediate == SelectSeq(messages, LAMBDA msg : (msg.id - 1) \notin Marked)

InOutput(msg) == \E k \in 1..Len(sanitized) : sanitized[k] = msg

HasCode(msg) == CodeBlocksMemo[msg.content] # <<>>

\* the first 500 characters of the first closed fenced block
CodeSignature(msg) == Prefix(CodeBlocksMemo[msg.content][1], CodeHashLen)

\* the k-th intermediate message is an error whose signature an earlier
\* intermediate error has: the aggressive cleanup drops it as a duplicate error
DuplicateError(k) ==
    /\ is_error(Intermediate[k])
    /\ \E j \in 1..(k - 1) :
          /\ is_error(Intermediate[j])
          /\ get_error_signature(Intermediate[j].content)
                 = get_error_signature(Intermediate[k].content)

\* the k-th intermediate message is the earliest with its code signature
\* among those not dropped as a duplicate error
EarliestWithCode(k) ==
    /\ HasCode(Intermediate[k])
    /\ ~DuplicateError(k)
    /\ \A j \in 1..(k - 1) :
          (HasCode(Intermediate[j]) /\ ~DuplicateError(j))
              => CodeSignature(Intermediate[j]) # CodeSignature(Intermediate[k])

\* C22: no two messages of an aggressive output have the same code signature,
\* and the messages with code in the output are, for each code signature, the
\* earliest of the intermediate sequence not dropped as a duplicate error.
AggressiveCodeUnique ==
    (Sanitized /\ level = "aggressive") =>
        /\ \A j, k \in 1..Len(sanitized) :
               (j < k /\ HasCode(sanitized[j]) /\ HasCode(sanitized[k]))
                   => CodeSignature(sanitized[j]) # CodeSignature(sanitized[k])
        /\ \A k \in 1..Len(Intermediate) :
               HasCode(Intermediate[k]) => (InOutput(Intermediate[k]) <=> EarliestWithCode(k))

\* an error, the same error again with a code block, and a third message with
\* that code block: the second goes as a duplicate error, the third stays
CodeKeptAfterDuplicateError ==
    /\ Sanitized
    /\ level = "aggressive"
    /\ Len(Intermediate) = 3
    /\ DuplicateError(2)
    /\ HasCode(Intermediate[2])
    /\ HasCode(Intermediate[3])
    /\ CodeSignature(Intermediate[2]) = CodeSignature(Intermediate[3])
    /\ sanitized = <<messages[1], messages[3]>>

\* the filler rule with the length of the content as it is
FillerByContentLength ==
    [c \in Contents |->
        \/ Len(c) < FillerMaxLen /\ ~Contains(c, Fence)
        \/ Strip(Lower(c)) \in FillerPhrases]

\* the filler rule with the length of the trimmed content
FillerByTrimmedLength ==
    [c \in Contents |->
        \/ Len(Strip(c)) < FillerMaxLen /\ ~Contains(c, Fence)
        \/ Strip(Lower(c)) \in FillerPhrases]

\* the second pass drops a message without error and without code only as
\* filler: such a message of the intermediate sequence is dropped exactly when
\* it is an assistant message that the rule names, and no message that the
\* rule names is in the output
DroppedAsFillerBy(rule) ==
    SecondPass =>
        /\ \A k \in 1..Len(Intermediate) :
               LET msg == Intermediate[k]
               IN  (~is_error(msg) /\ ~HasCode(msg)) =>
                       (~InOutput(msg) <=> (msg.role = "assistant" /\ rule[msg.content]))
        /\ \A k \in 1..Len(sanitized) :
               ~(sanitized[k].role = "assistant" /\ rule[sanitized[k].content])

\* C23 as stated: at the balanced and the aggressive level a message is
\* dropped as filler exactly when it is an assistant message whose content is
\* shorter than 30 characters and without a code fence, or whose trimmed,
\* lowercased content is an acknowledgment phrase; user and system messages are
\* never dropped as filler and no filler is left in the output.
FillerExactByContentLength == DroppedAsFillerBy(FillerByContentLength)

\* C23, amended: the length that is compared with 30 is the length of the
\* trimmed content.
FillerExactByTrimmedLength == DroppedAsFillerBy(FillerByTrimmedLength)

\* an assistant message of 30 characters or more, shorter than 30 when
\* trimmed, is dropped, and a short user message is kept
PaddedFillerDropped ==
    /\ SecondPass
    /\ \E k \in 1..Len(Intermediate) :
          /\ Intermediate[k].role = "assistant"
          /\ Len(Intermediate[k].content) >= FillerMaxLen
          /\ FillerByTrimmedLength[Intermediate[k].content]
          /\ ~InOutput(Intermediate[k])
    /\ \E k \in 1..Len(sanitized) :
          sanitized[k].role = "user" /\ Len(sanitized[k].content) < FillerMaxLen

\* C28: at the balanced and the aggressive level, when the intermediate
\* sequence holds an error-bearing message that is no filler, the output holds
\* a message with its error signature.
SecondPassKeepsEverySignature ==
    SecondPass =>
        \A k \in 1..Len(Intermediate) :
            (is_error(Intermediate[k]) /\ ~is_filler_message(Intermediate[k])) =>
                \E j \in 1..Len(sanitized) :
                    get_error_signature(sanitized[j].content)
                        = get_error_signature(Intermediate[k].content)

\* C30: without patterns, sanitize of the output of sanitize, at the same
\* level and with the same analysis, is that output.
SecondPassIdempotent ==
    (Sanitized /\ LoopsDetected = <<>>) =>
        sanitize(level, sanitized, analysis.result) = sanitized

\* without patterns, a cleanup dropped a repeated error and kept two messages
\* or more, one of them an error
CleanupDroppedRepeatedError ==
    /\ SecondPass
    /\ LoopsDetected = <<>>
    /\ Len(messages) = MaxLen
    /\ \A k \in 1..Len(messages) : is_error(messages[k]) /\ ~is_filler_message(messages[k])
    /\ messages[1].content = messages[Len(messages)].content
    /\ Len(sanitized) >= 2
    /\ Len(sanitized) < Len(messages)

-----------------------------------------------------------------------------
(* Properties of sanitize with several patterns and roles (Spec)           *)

\* the analysis holds patterns, all of them of the given type
OnlyPatterns(pattern_type) ==
    /\ LoopsDetected # <<>>
    /\ \A k \in 1..Len(LoopsDetected) : LoopsDetected[k].pattern_type = pattern_type

\* C27: at minimal level, with an analysis that holds apology_cascade patterns
\* only, every message that is not in the output is an assistant message.
ApologyCascadeRemovesAssistantOnly ==
    (Sanitized /\ level = "minimal" /\ OnlyPatterns("apology_cascade")) =>
        \A i \in AllIndices : ~Kept(i) => At(messages, i).role = "assistant"

\* the index of the message a pattern designates to keep: first_index for
\* repetitive_error and apology_cascade, last_index for code_churn
Representative(loop) ==
    IF loop.pattern_type = "code_churn" THEN loop.last_index ELSE loop.first_index

\* C26: at minimal level the representative of every repetitive_error,
\* apology_cascade and code_churn pattern of the analysis is in the output,
\* however many patterns the analysis holds.
RepresentativesKept ==
    (Sanitized /\ level = "minimal") =>
        \A k \in 1..Len(LoopsDetected) :
            (/\ LoopsDetected[k].pattern_type
                    \in {"repetitive_error", "apology_cascade", "code_churn"}
             /\ Representative(LoopsDetected[k]) \in AllIndices)
                => Kept(Representative(LoopsDetected[k]))

-----------------------------------------------------------------------------
(* Properties of sanitize on the analysis of the Gemini analyzer (SpecCli) *)

ByGemini == pc \in {"analyzed", "sanitized", "done"} /\ analysis.by = "gemini"

\* C29: with the analysis parsed from the reply of the external analyzer,
\* whose patterns all have first_index = last_index = 0, sanitize is the one
\* step rescue takes, on every message list, the empty one too; no index is
\* marked, and the output at minimal level is the input.
GeminiPatternsRemoveNothing ==
    /\ [](ByGemini =>
            /\ \A k \in 1..Len(LoopsDetected) :
                   LoopsDetected[k].first_index = 0 /\ LoopsDetected[k].last_index = 0
            /\ Marked = {}
            /\ (Sanitized /\ level = "minimal") => sanitized = messages)
    /\ [][(ByGemini /\ pc = "analyzed") =>
             /\ pc' = "sanitized"
             /\ sanitized' = sanitize(level', messages, analysis.result)]_vars

\* rescue has sanitized an empty conversation at minimal level with a pattern
\* in the reply of the external analyzer
EmptyConversationWithGeminiPattern ==
    /\ ByGemini
    /\ Sanitized
    /\ level = "minimal"
    /\ messages = <<>>
    /\ LoopsDetected # <<>>
    /\ sanitized = <<>>

-----------------------------------------------------------------------------
(* Properties of _detect_code_churn (SpecChurn)                            *)

\* the extracted blocks: <<i, b>> is block number b of the message at index i
BlockIds ==
    {<<i, b>> : i \in AllIndices, b \in 1..9} \cap
    {x \in AllIndices \X (1..9) : x[2] <= Len(CodeBlocksMemo[At(messages, x[1]).content])}

\* the order of extraction
BlockBefore(x, y) == x[1] < y[1] \/ (x[1] = y[1] /\ x[2] < y[2])

BlockLen(x) == Len(CodeBlocksMemo[At(messages, x[1]).content][x[2]])

\* 0.9 <= len(block) / len(seed) <= 1.1, the ratio being 0 for an empty seed
JoinsSeed(x, seed) ==
    /\ BlockLen(seed) # 0
    /\ 9 * BlockLen(seed) <= 10 * BlockLen(x)
    /\ 10 * BlockLen(x) <= 11 * BlockLen(seed)

\* the seeds of the greedy single pass: a block is a seed exactly when it
\* joins no seed before it
ChurnSeeds ==
    CHOOSE S \in SUBSET BlockIds :
        \A x \in BlockIds :
            x \in S <=> ~\E y \in S : BlockBefore(y, x) /\ JoinsSeed(x, y)

\* a block that is no seed belongs to the first of the seeds before it that
\* it joins
ChurnOwner(seeds, x) ==
    CHOOSE y \in seeds :
        /\ BlockBefore(y, x) /\ JoinsSeed(x, y)
        /\ \A z \in seeds : (BlockBefore(z, x) /\ JoinsSeed(x, z)) => ~BlockBefore(z, y)

\* the cluster of each seed
ChurnClusters(blocks, seeds) ==
    [seed \in seeds |->
        {seed} \cup {x \in blocks \ seeds : ChurnOwner(seeds, x) = seed}]

RECURSIVE SumOccurrences(_)
SumOccurrences(loops) ==
    IF loops = <<>> THEN 0 ELSE Head(loops).occurrences + SumOccurrences(Tail(loops))

-----------------------------------------------------------------------------
(* Properties of _identify_blocker (SpecBlocker)                           *)

MentionsBlockerWord(line) ==
    \E word \in {"error", "exception", "failed"} : Contains(Lower(line), word)

\* the lines of a text that mention a blocker word, each trimmed and cut to
\* 200 characters, in order
BlockerLines ==
    [c \in Contents |->
        LET hits == SelectSeq(SplitLines(c), MentionsBlockerWord)
        IN  [k \in 1..Len(hits) |-> Prefix(Strip(hits[k]), BlockerMaxLen)]]

\* the indices of the error-bearing messages among the last 10
RecentErrors ==
    {i \in AllIndices : /\ i >= Len(messages) - BlockerWindow
                        /\ ErrorMessageMemo[At(messages, i).content]}

\* the description of the repetitive_error pattern with the most occurrences,
\* the first of them among equals
MostRepeatedDescription(error_loops) ==
    LET k == CHOOSE k \in 1..Len(error_loops) :
                 /\ \A j \in 1..Len(error_loops) :
                        error_loops[j].occurrences <= error_loops[k].occurrences
                 /\ \A j \in 1..(k - 1) :
                        error_loops[j].occurrences < error_loops[k].occurrences
    IN  error_loops[k].description

\* the blocker by the three priorities, the second taking the given message
\* of the last 10 when there is one (given is a set of at most one index)
BlockerByPriority(given) ==
    LET blocker == analysis.result.blocker
        error_loops == PatternsOfType("repetitive_error")
    IN  IF error_loops # <<>> THEN blocker = MostRepeatedDescription(error_loops)
        ELSE IF given # {}
             THEN \E i \in given :
                      LET lines == BlockerLines[At(messages, i).content]
                      IN  lines # <<>> /\ blocker = lines[1]
        ELSE IF PatternsOfType("apology_cascade") # <<>> THEN blocker = StuckSentinel
        ELSE blocker = BlockerSentinel

\* C25 as stated: with a repetitive_error pattern the blocker is the
\* description of the one with the most occurrences, the first among equals;
\* else it is a line that mentions error, exception or failed of the most
\* recent error-bearing message among the last 10 (no other message is looked
\* at when that one has no such line); else, with an apology_cascade pattern,
\* the 'stuck' sentinel; else the 'not identified' one.
BlockerFromMostRecentError ==
    AnalyzedByRules =>
        BlockerByPriority({i \in RecentErrors :
                              /\ i = SetMax(RecentErrors)
                              /\ BlockerLines[At(messages, i).content] # <<>>})

\* the error-bearing messages among the last 10 with a line that mentions a
\* blocker word
RecentErrorsWithLine ==
    {i \in RecentErrors : BlockerLines[At(messages, i).content] # <<>>}

\* C25, amended: the second priority takes the most recent message among the
\* last 10 that is error-bearing and has a line that mentions error, exception
\* or failed, and gives the first such line, trimmed and cut to 200 characters.
BlockerFromMostRecentErrorLine ==
    AnalyzedByRules =>
        BlockerByPriority(IF RecentErrorsWithLine = {} THEN {}
                          ELSE {SetMax(RecentErrorsWithLine)})

\* eleven messages without a repetitive_error pattern: an error with a line
\* before the last 10, and in the last 10 an error with a line followed by an
\* error without one; the blocker is the line of the former of these two
BlockerFromOlderMessageInWindow ==
    /\ AnalyzedByRules
    /\ Len(messages) = BlockerWindow + 1
    /\ PatternsOfType("repetitive_error") = <<>>
    /\ ErrorMessageMemo[messages[1].content] /\ BlockerLines[messages[1].content] # <<>>
    /\ RecentErrorsWithLine = {1}
    /\ RecentErrors = {1, 2}
    /\ BlockerLines[messages[1].content][1] # BlockerLines[messages[2].content][1]
    /\ analysis.result.blocker = BlockerLines[messages[2].content][1]

=============================================================================
